---- MODULE Spec2Model ----
(***************************************************************************)
(* Day-data aggregation of whoop-garden (internal/fetch/fetch.go):         *)
(* fetchPaginated, the four Get<Resource> wrappers, ParseWhoopTime and     *)
(* GetDayData with its three goroutines and buffered result channels;      *)
(* and, each under a specification of its own, the operations around it:   *)
(* one Get<Resource> call on its own (PageSpec), Client.Get (ClientSpec),  *)
(* runWeekly (WeeklySpec), runFetchAll (FetchAllSpec) and                  *)
(* auth.RefreshIfNeeded (AuthSpec).                                        *)
(*                                                                         *)
(* Instants are integers: milliseconds since 2026-02-18T00:00:00Z.         *)
(* A timestamp string is a record [form, wall, off]; a nil pointer and a   *)
(* nil slice are the empty sequence, a non-nil pointer is a sequence of    *)
(* length one.                                                             *)
(***************************************************************************)
EXTENDS Integers, Sequences, FiniteSets, TLC

VARIABLES
    date,       \* argument of GetDayData: [t |-> instant, off |-> zone offset]
    pc,         \* position of the GetDayData call
    data,       \* the DayData being built / returned
    err,        \* the error GetDayData returns (Nil until it returns one)
    got,        \* locals got, wr: what was read from each channel
    fp,         \* the fetchPaginated frame of each resource
    worker,     \* state of each goroutine
    ch,         \* recCh, sleepCh, workCh
    requests,   \* per resource: the query parameters of each c.Get, in order
    served,     \* per resource: what the server answered, in order
    client,     \* one call of Client.Get: its locals, what it sent, slept and returned
    weekly,     \* one run of runWeekly
    fetchAll,   \* one run of runFetchAll
    auth        \* one call of auth.RefreshIfNeeded, with tokens.json

\* the operations other than GetDayData
others == <<client, weekly, fetchAll, auth>>

\* GetDayData and its fetches
dayVars == <<date, pc, data, err, got, fp, worker, ch, requests, served>>

vars == <<date, pc, data, err, got, fp, worker, ch, requests, served, others>>

-----------------------------------------------------------------------------
(* Bounds of the model *)

\* the server hands out at most this many pages per fetch
MaxPages == 2

\* a Get<Resource> call on its own is answered with at most this many pages
MaxRequests == 4

\* fetch-all is run with -days 0 .. MaxDays
MaxDays == 3

-----------------------------------------------------------------------------
(* Time *)

SecondMs == 1000
HourMs == 3600000
DayMs == 24 * HourMs

\* day d (0 = 2026-02-18), h:m:s.ms UTC
At(d, h, m, s, ms) == d * DayMs + h * HourMs + m * 60 * SecondMs + s * SecondMs + ms

\* timestamp strings
EmptyStr == [form |-> "empty", wall |-> 0, off |-> 0]
BadStr == [form |-> "bad", wall |-> 0, off |-> 0]
ZStr(w) == [form |-> "Z", wall |-> w, off |-> 0]
OffStr(w, o) == [form |-> "offset", wall |-> w, off |-> o]

\* time.Parse(layout, s) for the two layouts ParseWhoopTime uses.  The layout
\* "2006-01-02T15:04:05.999Z" ends in a literal Z: it takes "...Z" strings,
\* with or without a fraction, and no numeric zone offset.
TimeParse(layout, s) ==
    IF s.form = "Z" THEN [ok |-> TRUE, t |-> s.wall]
    ELSE IF s.form = "offset" /\ layout = "RFC3339" THEN [ok |-> TRUE, t |-> s.wall - s.off]
    ELSE [ok |-> FALSE, t |-> 0]

\* mutant: the error of both layouts is dropped, the zero time stands for a bad string
ParseWhoopTimeNoError(s) ==
    LET first == TimeParse("whoopTimeLayout", s)
    IN  IF first.ok THEN first ELSE [ok |-> TRUE, t |-> TimeParse("RFC3339", s).t]

ParseWhoopTime(s) ==
    LET first == TimeParse("whoopTimeLayout", s)
    IN  IF first.ok THEN first ELSE TimeParse("RFC3339", s)

\* t.UTC().Format(time.RFC3339): whole seconds, Z suffix
FormatRFC3339(t) == ZStr(t - (t % SecondMs))

\* time.Date(date.Year(), date.Month(), date.Day(), 0, 0, 0, 0, time.UTC)
Day(d) == ((d.t + d.off) \div DayMs) * DayMs

\* mutant: the window reaches one second into the next day
NextDayInclusive(d) == Day(d) + DayMs + SecondMs

\* day.AddDate(0, 0, 1)
NextDay(d) == Day(d) + DayMs

-----------------------------------------------------------------------------
(* Errors *)

Nil == [op |-> "nil", path |-> "", cause |-> ""]
ErrNotFound == [op |-> "", path |-> "", cause |-> "not found"]
\* fmt.Errorf("<op> <path>: %w", cause)
Wrap(op, path, cause) == [op |-> op, path |-> path, cause |-> cause]

-----------------------------------------------------------------------------
(* Resources and the records the provider may hold *)

Resources == {"cycle", "recovery", "sleep", "workout"}
Workers == {"recovery", "sleep", "workout"}

Path(f) ==
    CASE f = "cycle" -> "/cycle"
      [] f = "recovery" -> "/recovery"
      [] f = "sleep" -> "/activity/sleep"
      [] f = "workout" -> "/activity/workout"

Cycle(id, start, end) == [ID |-> id, Start |-> start, End |-> end]
Recovery(cycleID, sleepID) == [CycleID |-> cycleID, SleepID |-> sleepID]
Activity(id) == [ID |-> id]

c9 == Cycle(9, ZStr(At(2, 7, 15, 0, 0)), EmptyStr)
c5 == Cycle(5, OffStr(At(2, 9, 15, 0, 500), 2 * HourMs), ZStr(At(3, 6, 30, 0, 250)))
cBadStart == Cycle(7, BadStr, EmptyStr)
cBadEnd == Cycle(4, ZStr(At(2, 6, 0, 0, 0)), BadStr)
cMidnight == Cycle(3, ZStr(At(3, 0, 0, 0, 0)), EmptyStr)

CycleLists == {<<>>, <<c9>>, <<c5, c9>>, <<cBadStart>>, <<cBadEnd>>, <<cMidnight>>}

\* the records of the n-th page the server can answer with
Contents(f, n) ==
    CASE f = "cycle" -> IF n = 1 THEN CycleLists ELSE {<<c5>>}
      [] f = "recovery" ->
            IF n % 2 = 1 THEN {<<Recovery(5, "a"), Recovery(9, "b")>>}
            ELSE {<<Recovery(9, "c"), Recovery(3, "d")>>}
      [] f = "sleep" ->
            IF n % 2 = 1 THEN {<<Activity("s1"), Activity("s2")>>}
            ELSE {<<Activity("s3"), Activity("s1")>>}
      [] f = "workout" ->
            IF n % 2 = 1 THEN {<<Activity("w2"), Activity("w1")>>}
            ELSE {<<>>}

Tokens == <<"token2", "token3", "token4", "token5">>

\* the failures of c.Get other than not-found: a non-2xx status, a transport error
ErrCauses(f) ==
    CASE f = "cycle" -> {"status 500", "transport"}
      [] f = "recovery" -> {"status 500"}
      [] f = "sleep" -> {"transport"}
      [] f = "workout" -> {"status 500"}

Response(kind, records, next, cause) ==
    [kind |-> kind, records |-> records, next |-> next, cause |-> cause]

\* what c.Get can come back with on the n-th request of a fetch
Responses(f, n) ==
    {Response("ok", r, t, "") :
        r \in Contents(f, n),
        t \in {""} \cup (IF n < MaxPages THEN {Tokens[n]} ELSE {})}
    \cup {Response("notfound", <<>>, "", "not found")}
    \cup {Response("error", <<>>, "", c) : c \in ErrCauses(f)}
    \cup {Response("badbody", <<>>, "", "")}

-----------------------------------------------------------------------------
(* fetchPaginated *)

IdleFrame ==
    [state |-> "idle", start |-> 0, end |-> 0,
     all |-> <<>>, nextToken |-> "", v |-> <<>>, err |-> Nil]

\* entry: var all []T; nextToken := ""
Call(start, end) ==
    [state |-> "running", start |-> start, end |-> end,
     all |-> <<>>, nextToken |-> "", v |-> <<>>, err |-> Nil]

\* mutant: the if nextToken != "" { params.Set("nextToken", ...) } is missing
ParamsWithoutToken(f, frame) ==
    [path |-> Path(f),
     start |-> FormatRFC3339(frame.start),
     end |-> FormatRFC3339(frame.end),
     nextToken |-> ""]

\* url.Values of one iteration
Params(f, frame) ==
    [path |-> Path(f),
     start |-> FormatRFC3339(frame.start),
     end |-> FormatRFC3339(frame.end),
     nextToken |-> frame.nextToken]

\* body, err := c.Get(path, params): a 404 is the sentinel ErrNotFound, any
\* other failure another error, a 2xx the body (which json.Unmarshal may reject)
Get(resp) ==
    CASE resp.kind = "notfound" ->
            [body |-> [decodes |-> FALSE], err |-> ErrNotFound]
      [] resp.kind = "error" ->
            [body |-> [decodes |-> FALSE], err |-> Wrap("", "", resp.cause)]
      [] resp.kind = "badbody" ->
            [body |-> [decodes |-> FALSE], err |-> Nil]
      [] resp.kind = "ok" ->
            [body |-> [decodes |-> TRUE], err |-> Nil]

Return(frame, v, e) == [frame EXCEPT !.state = "returned", !.v = v, !.err = e]

\* mutant: all = page.Records, the earlier pages are lost
IterateKeepsLastPage(f, frame, resp) ==
    IF Get(resp).err = ErrNotFound THEN Return(frame, frame.all, Nil)
    ELSE IF Get(resp).err # Nil THEN Return(frame, <<>>, Wrap("get", Path(f), Get(resp).err.cause))
    ELSE IF ~Get(resp).body.decodes THEN Return(frame, <<>>, Wrap("parse", Path(f), "json"))
    ELSE LET all == resp.records
         IN  IF resp.next = ""
             THEN Return([frame EXCEPT !.all = all], all, Nil)
             ELSE [frame EXCEPT !.all = all, !.nextToken = resp.next]

\* mutant: a not-found answer is not recognised and the request is repeated
IterateNotFoundRetries(f, frame, resp) ==
    IF Get(resp).err = ErrNotFound THEN frame
    ELSE IF Get(resp).err # Nil THEN Return(frame, <<>>, Wrap("get", Path(f), Get(resp).err.cause))
    ELSE IF ~Get(resp).body.decodes THEN Return(frame, <<>>, Wrap("parse", Path(f), "json"))
    ELSE LET all == frame.all \o resp.records
         IN  IF resp.next = ""
             THEN Return([frame EXCEPT !.all = all], all, Nil)
             ELSE [frame EXCEPT !.all = all, !.nextToken = resp.next]

\* mutant: not-found handled like every other error of c.Get
IterateNotFoundFails(f, frame, resp) ==
    IF Get(resp).err # Nil THEN Return(frame, <<>>, Wrap("get", Path(f), Get(resp).err.cause))
    ELSE IF ~Get(resp).body.decodes THEN Return(frame, <<>>, Wrap("parse", Path(f), "json"))
    ELSE LET all == frame.all \o resp.records
         IN  IF resp.next = ""
             THEN Return([frame EXCEPT !.all = all], all, Nil)
             ELSE [frame EXCEPT !.all = all, !.nextToken = resp.next]

\* mutant: every error of c.Get ends the fetch like a not-found does
IterateSwallowsErrors(f, frame, resp) ==
    IF Get(resp).err # Nil THEN Return(frame, frame.all, Nil)
    ELSE IF ~Get(resp).body.decodes THEN Return(frame, <<>>, Wrap("parse", Path(f), "json"))
    ELSE LET all == frame.all \o resp.records
         IN  IF resp.next = ""
             THEN Return([frame EXCEPT !.all = all], all, Nil)
             ELSE [frame EXCEPT !.all = all, !.nextToken = resp.next]

\* mutant: a failed request returns all, err: the pages read so far come with the error
IterateReturnsPartial(f, frame, resp) ==
    IF Get(resp).err = ErrNotFound THEN Return(frame, frame.all, Nil)
    ELSE IF Get(resp).err # Nil THEN Return(frame, frame.all, Wrap("get", Path(f), Get(resp).err.cause))
    ELSE IF ~Get(resp).body.decodes THEN Return(frame, frame.all, Wrap("parse", Path(f), "json"))
    ELSE LET all == frame.all \o resp.records
         IN  IF resp.next = ""
             THEN Return([frame EXCEPT !.all = all], all, Nil)
             ELSE [frame EXCEPT !.all = all, !.nextToken = resp.next]

\* mutant: a not-found answer returns nil, nil: the pages read so far are dropped
IterateNotFoundEmpty(f, frame, resp) ==
    IF Get(resp).err = ErrNotFound THEN Return(frame, <<>>, Nil)
    ELSE IF Get(resp).err # Nil THEN Return(frame, <<>>, Wrap("get", Path(f), Get(resp).err.cause))
    ELSE IF ~Get(resp).body.decodes THEN Return(frame, <<>>, Wrap("parse", Path(f), "json"))
    ELSE LET all == frame.all \o resp.records
         IN  IF resp.next = ""
             THEN Return([frame EXCEPT !.all = all], all, Nil)
             ELSE [frame EXCEPT !.all = all, !.nextToken = resp.next]

\* mutant: the loop breaks when the server hands back the token it was just sent
IterateStopsOnRepeat(f, frame, resp) ==
    IF Get(resp).err = ErrNotFound THEN Return(frame, frame.all, Nil)
    ELSE IF Get(resp).err # Nil THEN Return(frame, <<>>, Wrap("get", Path(f), Get(resp).err.cause))
    ELSE IF ~Get(resp).body.decodes THEN Return(frame, <<>>, Wrap("parse", Path(f), "json"))
    ELSE LET all == frame.all \o resp.records
         IN  IF resp.next = "" \/ resp.next = frame.nextToken
             THEN Return([frame EXCEPT !.all = all], all, Nil)
             ELSE [frame EXCEPT !.all = all, !.nextToken = resp.next]

\* one iteration of the for loop, given what c.Get came back with
Iterate(f, frame, resp) ==
    IF Get(resp).err = ErrNotFound THEN Return(frame, frame.all, Nil)
    ELSE IF Get(resp).err # Nil THEN Return(frame, <<>>, Wrap("get", Path(f), Get(resp).err.cause))
    ELSE IF ~Get(resp).body.decodes THEN Return(frame, <<>>, Wrap("parse", Path(f), "json"))
    ELSE LET all == frame.all \o resp.records
         IN  IF resp.next = ""
             THEN Return([frame EXCEPT !.all = all], all, Nil)
             ELSE [frame EXCEPT !.all = all, !.nextToken = resp.next]

FetchStep(f) ==
    /\ fp[f].state = "running"
    /\ \E resp \in Responses(f, Len(served[f]) + 1) :
        /\ requests' = [requests EXCEPT ![f] = Append(@, Params(f, fp[f]))]
        /\ served' = [served EXCEPT ![f] = Append(@, resp)]
        /\ fp' = [fp EXCEPT ![f] = Iterate(f, fp[f], resp)]
    /\ UNCHANGED <<date, pc, data, err, got, worker, ch, others>>

-----------------------------------------------------------------------------
(* GetDayData *)

Dates ==
    { [t |-> At(2, 12, 0, 0, 0), off |-> 0],
      [t |-> At(2, 23, 0, 0, 0), off |-> 2 * HourMs] }

\* mutant: data := DayData{}
EmptyDayDataNoDate(day) ==
    [Date |-> <<>>, Cycle |-> <<>>, Recovery |-> <<>>, Sleeps |-> <<>>, Workouts |-> <<>>]

\* lines 116: data := DayData{Date: day}
EmptyDayData(day) ==
    [Date |-> <<day>>, Cycle |-> <<>>, Recovery |-> <<>>, Sleeps |-> <<>>, Workouts |-> <<>>]

NoResult == [v |-> <<>>, err |-> Nil]

\* the operations that are not part of a GetDayData call, before they are called
ClientIdle ==
    [pc |-> "idle", path |-> "", attempt |-> 0, backoff |-> 0,
     answers |-> <<>>, slept |-> <<>>, body |-> <<>>, err |-> Nil]

WeeklyIdle ==
    [pc |-> "idle", date |-> [t |-> 0, off |-> 0], today |-> [t |-> 0, off |-> 0],
     monday |-> [t |-> 0, off |-> 0], sunday |-> [t |-> 0, off |-> 0],
     d |-> [t |-> 0, off |-> 0], days |-> <<>>, calls |-> <<>>]

FetchAllIdle ==
    [pc |-> "idle", days |-> 0, start |-> [t |-> 0, off |-> 0], end |-> [t |-> 0, off |-> 0],
     d |-> [t |-> 0, off |-> 0], events |-> <<>>]

\* the content of tokens.json: absent, not JSON, or the fields of a TokenResponse
NoFile == [kind |-> "missing", AccessToken |-> "", RefreshToken |-> "", ExpiresAt |-> 0]
Garbage == [kind |-> "corrupt", AccessToken |-> "", RefreshToken |-> "", ExpiresAt |-> 0]
TokenResponse(access, refresh, expiresAt) ==
    [kind |-> "tokens", AccessToken |-> access, RefreshToken |-> refresh,
     ExpiresAt |-> expiresAt]

NoAnswer ==
    [kind |-> "none", AccessToken |-> "", RefreshToken |-> "", ExpiresIn |-> 0, delay |-> 0]

AuthIdle ==
    [pc |-> "idle", now |-> 0, file |-> NoFile, stored |-> NoFile,
     tokens |-> NoFile, refreshed |-> NoFile, posts |-> <<>>, answer |-> NoAnswer,
     saved |-> "", token |-> "", err |-> Nil]

\* GetDayData is not being called
GetDayDataIdle ==
    /\ date = [t |-> 0, off |-> 0]
    /\ pc = <<"idle">>
    /\ data = EmptyDayData(0)
    /\ err = Nil
    /\ got = [w \in Workers |-> NoResult]
    /\ fp = [f \in Resources |-> IdleFrame]
    /\ worker = [w \in Workers |-> "none"]
    /\ ch = [w \in Workers |-> <<>>]
    /\ requests = [f \in Resources |-> <<>>]
    /\ served = [f \in Resources |-> <<>>]

Init ==
    /\ date \in Dates
    /\ pc = <<"start">>
    /\ data = [Date |-> <<>>, Cycle |-> <<>>, Recovery |-> <<>>, Sleeps |-> <<>>, Workouts |-> <<>>]
    /\ err = Nil
    /\ got = [w \in Workers |-> NoResult]
    /\ fp = [f \in Resources |-> IdleFrame]
    /\ worker = [w \in Workers |-> "none"]
    /\ ch = [w \in Workers |-> <<>>]
    /\ requests = [f \in Resources |-> <<>>]
    /\ served = [f \in Resources |-> <<>>]
    /\ client = ClientIdle
    /\ weekly = WeeklyIdle
    /\ fetchAll = FetchAllIdle
    /\ auth = AuthIdle

\* lines 113-118: data := DayData{Date: day}; GetCycles(c, day, nextDay) is entered
Start ==
    /\ pc = <<"start">>
    /\ data' = EmptyDayData(Day(date))
    /\ fp' = [fp EXCEPT !["cycle"] = Call(Day(date), NextDay(date))]
    /\ pc' = <<"getCycles">>
    /\ UNCHANGED <<date, err, got, worker, ch, requests, served, others>>

\* mutant: the channels are read in the opposite order
JoinOrderReversed == <<"workout", "sleep", "recovery">>

\* mutant: sleepCh is read before recCh
JoinOrderSleepFirst == <<"sleep", "recovery", "workout">>

\* lines 177-188: the order in which GetDayData reads recCh, sleepCh, workCh
JoinOrder == <<"recovery", "sleep", "workout">>

Position(w) == CHOOSE i \in 1..Len(JoinOrder) : JoinOrder[i] = w

\* the pc at which GetDayData is blocked in its i-th receive
RecvAt(i) == <<"recv", JoinOrder[i]>>

RecvPc(w) == <<"recv", w>>

\* mutant: the cycle's own end is never used
CycleEndAlwaysNextDay(cycle, nextDay) == nextDay

\* mutant: the error of parsing cycle.End is dropped and the parsed value used
CycleEndUnchecked(cycle, nextDay) ==
    IF cycle.End # EmptyStr THEN ParseWhoopTime(cycle.End).t ELSE nextDay

\* cycleEnd := nextDay, replaced by cycle.End when that is non-empty and parses
CycleEnd(cycle, nextDay) ==
    IF cycle.End # EmptyStr /\ ParseWhoopTime(cycle.End).ok
    THEN ParseWhoopTime(cycle.End).t
    ELSE nextDay

\* sleepStart := cycleStart.Add(-24 * time.Hour)
SleepStart(cycleStart) == cycleStart - DayMs

\* the (start, end) each goroutine passes to its Get<Resource>
Window(w, cycleStart, cycleEnd) ==
    CASE w = "recovery" -> <<cycleStart, cycleEnd>>
      [] w = "sleep" -> <<SleepStart(cycleStart), cycleEnd>>
      [] w = "workout" -> <<cycleStart, cycleEnd>>

\* mutant: the workout goroutine is not started
LaunchWithoutWorkout(cycleStart, cycleEnd) ==
    [f \in Resources |->
        IF f \in Workers \ {"workout"}
        THEN Call(Window(f, cycleStart, cycleEnd)[1], Window(f, cycleStart, cycleEnd)[2])
        ELSE fp[f]]

Launch(cycleStart, cycleEnd) ==
    [f \in Resources |->
        IF f \in Workers
        THEN Call(Window(f, cycleStart, cycleEnd)[1], Window(f, cycleStart, cycleEnd)[2])
        ELSE fp[f]]

\* mutant: the most recent cycle is taken to be the last of the list
SelectCycleLast(cycles) == cycles[Len(cycles)]

\* line 127: cycle := cycles[0]
SelectCycle(cycles) == cycles[1]

\* lines 119-175: GetCycles has returned
AfterCycles ==
    /\ pc = <<"getCycles">>
    /\ fp["cycle"].state = "returned"
    /\ LET cycles == fp["cycle"].v
           e == fp["cycle"].err
       IN  IF e # Nil
           THEN /\ err' = e
                /\ pc' = <<"returned">>
                /\ UNCHANGED <<data, fp, worker>>
           ELSE IF Len(cycles) = 0
           THEN /\ pc' = <<"returned">>
                /\ UNCHANGED <<data, err, fp, worker>>
           ELSE LET cycle == SelectCycle(cycles)
                    parsed == ParseWhoopTime(cycle.Start)
                IN  /\ data' = [data EXCEPT !.Cycle = <<cycle>>]
                    /\ IF ~parsed.ok
                       THEN /\ err' = Wrap("parse cycle start", "", "parse")
                            /\ pc' = <<"returned">>
                            /\ UNCHANGED <<fp, worker>>
                       ELSE /\ fp' = Launch(parsed.t, CycleEnd(cycle, NextDay(date)))
                            /\ worker' = [w \in Workers |-> "running"]
                            /\ pc' = RecvAt(1)
                            /\ UNCHANGED err
    /\ UNCHANGED <<date, got, ch, requests, served, others>>

-----------------------------------------------------------------------------
(* The goroutines and their channels *)

\* mutant: unbuffered channels, make(chan ...)
Unbuffered == 1 - 1

\* make(chan ..., 1)
ChanCap == 1

\* a Go send proceeds when the buffer has room, or (unbuffered) when the
\* receiver is already waiting in its receive
CanSend(w) ==
    \/ Len(ch[w]) < ChanCap
    \/ ChanCap = 0 /\ Len(ch[w]) = 0 /\ pc = RecvPc(w)

\* mutant: the goroutine does not end with its send and sends again
WorkerSendAgain(w) ==
    /\ worker[w] = "running"
    /\ fp[w].state = "returned"
    /\ CanSend(w)
    /\ ch' = [ch EXCEPT ![w] = Append(@, [v |-> fp[w].v, err |-> fp[w].err])]
    /\ UNCHANGED <<date, pc, data, err, got, fp, worker, requests, served, others>>

\* ch <- result{v, err}, the goroutine's last statement
WorkerSend(w) ==
    /\ worker[w] = "running"
    /\ fp[w].state = "returned"
    /\ CanSend(w)
    /\ ch' = [ch EXCEPT ![w] = Append(@, [v |-> fp[w].v, err |-> fp[w].err])]
    /\ worker' = [worker EXCEPT ![w] = "done"]
    /\ UNCHANGED <<date, pc, data, err, got, fp, requests, served, others>>

\* mutant: the error of a result is not looked at
FailedNever(result) == FALSE

\* if rr.err != nil / sr.err != nil / wr.err != nil
Failed(result) == result.err # Nil

\* mutant: the loop has no break, the last match wins
PickRecoveryLast(recs, id) ==
    LET hits == {i \in 1..Len(recs) : recs[i].CycleID = id}
    IN  IF hits = {} THEN <<>>
        ELSE <<recs[CHOOSE i \in hits : \A j \in hits : i >= j]>>

\* lines 190-196: the first recovery whose cycle_id is the cycle's id, as a pointer
PickRecovery(recs, id) ==
    LET hits == {i \in 1..Len(recs) : recs[i].CycleID = id}
    IN  IF hits = {} THEN <<>>
        ELSE <<recs[CHOOSE i \in hits : \A j \in hits : i <= j]>>

\* mutant: sr.v and wr.v are assigned to each other's field
ReconcileSwapped(d, recs, sleeps, workouts) ==
    [d EXCEPT !.Recovery = PickRecovery(recs, d.Cycle[1].ID),
              !.Sleeps = workouts,
              !.Workouts = sleeps]

\* mutant: the sleeps are stored newest first
ReconcileReversed(d, recs, sleeps, workouts) ==
    [d EXCEPT !.Recovery = PickRecovery(recs, d.Cycle[1].ID),
              !.Sleeps = [i \in 1..Len(sleeps) |-> sleeps[Len(sleeps) + 1 - i]],
              !.Workouts = workouts]

\* lines 190-198
Reconcile(d, recs, sleeps, workouts) ==
    [d EXCEPT !.Recovery = PickRecovery(recs, d.Cycle[1].ID),
              !.Sleeps = sleeps,
              !.Workouts = workouts]

\* lines 177-200: one receive (rr := <-recCh, sr := <-sleepCh, wr := <-workCh),
\* the early return on its error and, after the last one, the reconciliation
Recv(w) ==
    /\ pc = RecvPc(w)
    /\ Len(ch[w]) > 0
    /\ ch' = [ch EXCEPT ![w] = Tail(@)]
    /\ got' = [got EXCEPT ![w] = Head(ch[w])]
    /\ IF Failed(got'[w])
       THEN /\ err' = got'[w].err
            /\ pc' = <<"returned">>
            /\ UNCHANGED data
       ELSE IF Position(w) < Len(JoinOrder)
       THEN /\ pc' = RecvAt(Position(w) + 1)
            /\ UNCHANGED <<data, err>>
       ELSE /\ data' = Reconcile(data, got'["recovery"].v, got'["sleep"].v, got'["workout"].v)
            /\ pc' = <<"returned">>
            /\ UNCHANGED err
    /\ UNCHANGED <<date, fp, worker, requests, served, others>>

Next ==
    \/ Start
    \/ \E f \in Resources : FetchStep(f)
    \/ AfterCycles
    \/ \E w \in Workers : WorkerSend(w)
    \/ \E w \in Workers : Recv(w)

Spec == Init /\ [][Next]_vars

\* every request is answered and the Go scheduler runs every runnable goroutine
Fairness ==
    /\ WF_vars(Start)
    /\ WF_vars(AfterCycles)
    /\ \A f \in Resources : WF_vars(FetchStep(f))
    /\ \A w \in Workers : WF_vars(WorkerSend(w))
    /\ \A w \in Workers : WF_vars(Recv(w))

FairSpec == Spec /\ Fairness

-----------------------------------------------------------------------------
(* One Get<Resource> call on its own, as fetch_test.go makes them: the      *)
(* server may answer more pages than within GetDayData, and may hand out    *)
(* a continuation token a second time                                       *)

\* the (start, end) of the call
PageWindows ==
    { <<At(2, 0, 0, 0, 0), At(3, 0, 0, 0, 0)>>,
      <<At(2, 7, 15, 0, 500), At(3, 6, 30, 0, 250)>> }

\* what c.Get can come back with on the n-th request: a page that continues
\* carries a token of its own or the token of the first page once more
PageResponses(f, n) ==
    {Response("ok", r, t, "") :
        r \in Contents(f, n),
        t \in {""} \cup (IF n < MaxRequests THEN {Tokens[n], Tokens[1]} ELSE {})}
    \cup {Response("notfound", <<>>, "", "not found")}
    \cup {Response("error", <<>>, "", c) : c \in ErrCauses(f)}
    \cup {Response("badbody", <<>>, "", "")}

PageInit ==
    /\ date = [t |-> 0, off |-> 0]
    /\ pc = <<"idle">>
    /\ data = EmptyDayData(0)
    /\ err = Nil
    /\ got = [w \in Workers |-> NoResult]
    /\ \E f \in Resources, win \in PageWindows :
         fp = [g \in Resources |-> IF g = f THEN Call(win[1], win[2]) ELSE IdleFrame]
    /\ worker = [w \in Workers |-> "none"]
    /\ ch = [w \in Workers |-> <<>>]
    /\ requests = [f \in Resources |-> <<>>]
    /\ served = [f \in Resources |-> <<>>]
    /\ client = ClientIdle
    /\ weekly = WeeklyIdle
    /\ fetchAll = FetchAllIdle
    /\ auth = AuthIdle

\* one iteration of fetchPaginated: the request, the answer, the loop body
PageStep(f) ==
    /\ fp[f].state = "running"
    /\ \E resp \in PageResponses(f, Len(served[f]) + 1) :
        /\ requests' = [requests EXCEPT ![f] = Append(@, Params(f, fp[f]))]
        /\ served' = [served EXCEPT ![f] = Append(@, resp)]
        /\ fp' = [fp EXCEPT ![f] = Iterate(f, fp[f], resp)]
    /\ UNCHANGED <<date, pc, data, err, got, worker, ch, others>>

PageNext == \E f \in Resources : PageStep(f)

PageSpec == PageInit /\ [][PageNext]_vars

\* every request is answered
FairPageSpec == PageSpec /\ \A f \in Resources : WF_vars(PageStep(f))

-----------------------------------------------------------------------------
(* Client.Get (internal/client): one GET with its retries on HTTP 429 *)

StatusOK == 200
StatusNotFound == 404
StatusTooManyRequests == 429

\* the status codes the server answers with
Statuses == {199, StatusOK, 204, 299, 300, 401, StatusNotFound, StatusTooManyRequests, 500, 503}

Body(status) == <<"body", status>>

\* what c.doGet comes back with: body, statusCode, err
Answers ==
    {[status |-> st, body |-> Body(st), err |-> Nil] : st \in Statuses}
    \cup {[status |-> 0, body |-> <<>>, err |-> Wrap("transport", "", "connection refused")]}

\* mutant: one attempt more
FourRetries == 3 + 1

\* for attempt := 0; attempt <= 3; attempt++
MaxRetries == 3

\* mutant: the status range is tested before the 404, which becomes a generic error
OutcomeNotFoundGeneric(path, answer) ==
    IF answer.status < 200 \/ answer.status >= 300
    THEN [body |-> <<>>, err |-> Wrap("WHOOP API returned", path, ToString(answer.status))]
    ELSE IF answer.status = StatusNotFound
    THEN [body |-> <<>>, err |-> ErrNotFound]
    ELSE [body |-> answer.body, err |-> Nil]

\* what Get returns for an answer that is neither an error of doGet nor a 429
Outcome(path, answer) ==
    IF answer.status = StatusNotFound
    THEN [body |-> <<>>, err |-> ErrNotFound]
    ELSE IF answer.status < 200 \/ answer.status >= 300
    THEN [body |-> <<>>, err |-> Wrap("WHOOP API returned", path, ToString(answer.status))]
    ELSE [body |-> answer.body, err |-> Nil]

\* the error after the loop
RateLimitExceeded(path) == Wrap("WHOOP API rate limit exceeded", path, "after retries")

ClientInit ==
    /\ GetDayDataIdle
    /\ client = ClientIdle
    /\ weekly = WeeklyIdle
    /\ fetchAll = FetchAllIdle
    /\ auth = AuthIdle

\* entry of Get(path, params): backoff := time.Second; attempt := 0
ClientCall ==
    /\ client.pc = "idle"
    /\ \E f \in Resources :
        client' = [client EXCEPT !.pc = "request", !.path = Path(f),
                                 !.attempt = 0, !.backoff = SecondMs]
    /\ UNCHANGED <<dayVars, weekly, fetchAll, auth>>

\* one c.doGet and the tests on what it came back with
DoGet ==
    /\ client.pc = "request"
    /\ \E answer \in Answers :
        LET sent == [client EXCEPT !.answers = Append(@, answer)]
        IN  client' =
                IF answer.err # Nil
                THEN [sent EXCEPT !.pc = "returned", !.err = answer.err]
                ELSE IF answer.status = StatusTooManyRequests
                THEN [sent EXCEPT !.pc = "sleep"]
                ELSE [sent EXCEPT !.pc = "returned",
                                  !.body = Outcome(client.path, answer).body,
                                  !.err = Outcome(client.path, answer).err]
    /\ UNCHANGED <<dayVars, weekly, fetchAll, auth>>

\* time.Sleep(backoff); backoff *= 2; continue (attempt++ and the loop test),
\* and the return after the loop
Backoff ==
    /\ client.pc = "sleep"
    /\ LET after == [client EXCEPT !.slept = Append(@, client.backoff),
                                   !.backoff = 2 * client.backoff,
                                   !.attempt = client.attempt + 1]
       IN  client' =
               IF after.attempt <= MaxRetries
               THEN [after EXCEPT !.pc = "request"]
               ELSE [after EXCEPT !.pc = "returned", !.err = RateLimitExceeded(client.path)]
    /\ UNCHANGED <<dayVars, weekly, fetchAll, auth>>

ClientNext == ClientCall \/ DoGet \/ Backoff

ClientSpec == ClientInit /\ [][ClientNext]_vars

-----------------------------------------------------------------------------
(* The batch commands of main.go: what they see of getClient and GetDayData *)

\* a time.Time in UTC
UTC(t) == [t |-> t, off |-> 0]

\* a.After(b), a.Before(b)
After(a, b) == a.t > b.t
Before(a, b) == a.t < b.t

\* d.AddDate(0, 0, n), in a location with a fixed offset
AddDays(d, n) == [d EXCEPT !.t = d.t + n * DayMs]

\* int(date.Weekday()): Sunday = 0; 2026-02-18 is a Wednesday
Weekday(d) == (((d.t + d.off) \div DayMs) + 3) % 7

\* what getClient returns: a client, or the authentication error
ClientResults == {Nil, Wrap("authentication error", "", "tokens not found")}

\* what GetDayData(c, d) returns: a full day, a day without cycle, a failed
\* cycle fetch, a failed sub-fetch
DayResults(d) ==
    LET empty == EmptyDayData(UTC(Day(d)))
        partial == [empty EXCEPT !.Cycle = <<c9>>]
        full == [partial EXCEPT !.Recovery = <<Recovery(9, "b")>>,
                                !.Sleeps = <<Activity("s1")>>]
    IN  { [data |-> full, err |-> Nil],
          [data |-> empty, err |-> Nil],
          [data |-> partial, err |-> Wrap("get", "/recovery", "status 500")] }

-----------------------------------------------------------------------------
(* runWeekly *)

\* the -date flag (parseDate gives 00:00 UTC of it, or time.Now() without it)
\* and what time.Now() is when the loop starts
WeeklyRuns ==
    { \* -date 2026-02-22 (a Sunday), run on Friday 2026-02-20 09:00 UTC
      [date |-> UTC(At(4, 0, 0, 0, 0)), today |-> UTC(At(2, 9, 0, 0, 0))],
      \* no flag, run on Thursday 2026-02-19 01:30 in a zone two hours east of UTC
      [date |-> [t |-> At(0, 23, 30, 0, 0), off |-> 2 * HourMs],
       today |-> [t |-> At(0, 23, 30, 0, 0), off |-> 2 * HourMs]],
      \* -date 2026-02-23 (a Monday), run on 2026-03-10
      [date |-> UTC(At(5, 0, 0, 0, 0)), today |-> UTC(At(20, 8, 0, 0, 0))],
      \* -date 2026-03-04, a week that has not begun
      [date |-> UTC(At(14, 0, 0, 0, 0)), today |-> UTC(At(2, 9, 0, 0, 0))] }

\* lines 227-230: weekday, Sunday treated as day 7
ISOWeekday(given) == IF Weekday(given) = 0 THEN 7 ELSE Weekday(given)

\* lines 231-232: 00:00 of the Monday of the given date's week, in its location
Monday(given) ==
    [t |-> (((given.t + given.off) \div DayMs) - (ISOWeekday(given) - 1)) * DayMs - given.off,
     off |-> given.off]

WeekDays == 7

WeeklyInit ==
    /\ GetDayDataIdle
    /\ client = ClientIdle
    /\ weekly = WeeklyIdle
    /\ fetchAll = FetchAllIdle
    /\ auth = AuthIdle

\* lines 220-243: the week is computed, the client obtained, the clock read
WeeklyStart ==
    /\ weekly.pc = "idle"
    /\ \E run \in WeeklyRuns, e \in ClientResults :
        weekly' =
            IF e # Nil
            THEN [weekly EXCEPT !.pc = "exit", !.date = run.date,
                                !.monday = Monday(run.date),
                                !.sunday = AddDays(Monday(run.date), WeekDays)]
            ELSE [weekly EXCEPT !.pc = "loop", !.date = run.date, !.today = run.today,
                                !.monday = Monday(run.date),
                                !.sunday = AddDays(Monday(run.date), WeekDays),
                                !.d = Monday(run.date)]
    /\ UNCHANGED <<dayVars, client, fetchAll, auth>>

\* mutant: a failed day is dropped instead of replaced
DayEntryDropFailed(d, result) ==
    IF result.err # Nil THEN <<>> ELSE <<result.data>>

\* lines 250-255: what one fetched day adds to days
DayEntry(d, result) ==
    IF result.err # Nil THEN <<EmptyDayData(d)>> ELSE <<result.data>>

\* lines 245-256: one iteration of the loop
WeeklyDay ==
    /\ weekly.pc = "loop"
    /\ Before(weekly.d, weekly.sunday)
    /\ IF After(weekly.d, weekly.today)
       THEN weekly' = [weekly EXCEPT !.days = Append(@, EmptyDayData(weekly.d)),
                                     !.d = AddDays(weekly.d, 1)]
       ELSE \E result \in DayResults(weekly.d) :
               weekly' = [weekly EXCEPT
                            !.calls = Append(@, [d |-> weekly.d, result |-> result]),
                            !.days = @ \o DayEntry(weekly.d, result),
                            !.d = AddDays(weekly.d, 1)]
    /\ UNCHANGED <<dayVars, client, fetchAll, auth>>

\* lines 245, 258: the loop is left and the week handed to render.BuildWeekStats
WeeklyBuilt ==
    /\ weekly.pc = "loop"
    /\ ~Before(weekly.d, weekly.sunday)
    /\ weekly' = [weekly EXCEPT !.pc = "built"]
    /\ UNCHANGED <<dayVars, client, fetchAll, auth>>

WeeklyNext == WeeklyStart \/ WeeklyDay \/ WeeklyBuilt

WeeklySpec == WeeklyInit /\ [][WeeklyNext]_vars

-----------------------------------------------------------------------------
(* runFetchAll *)

\* time.Sleep(500 * time.Millisecond)
ThrottleMs == 500

\* time.Now() at line 342: 2026-02-22 10:00 UTC
FetchAllNow == UTC(At(4, 10, 0, 0, 0))

\* what render.RenderDaily, ensureYearDir and os.WriteFile come back with
NoteResults == {"written", "render error", "mkdir error", "write error"}

FetchEvent(d, result) == [kind |-> "fetch", d |-> d, ms |-> 0, result |-> result]
SleepEvent(d) == [kind |-> "sleep", d |-> d, ms |-> ThrottleMs, result |-> <<>>]
WriteEvent(d) == [kind |-> "write", d |-> d, ms |-> 0, result |-> <<>>]

FetchAllInit ==
    /\ GetDayDataIdle
    /\ client = ClientIdle
    /\ weekly = WeeklyIdle
    /\ fetchAll = FetchAllIdle
    /\ auth = AuthIdle

\* lines 325-345: the flag, the client, the output directory, the range of days
FetchAllStart ==
    /\ fetchAll.pc = "idle"
    /\ \E n \in 0..MaxDays, e \in ClientResults, dir \in {"ok", "mkdir error"} :
        fetchAll' =
            IF e # Nil \/ dir # "ok"
            THEN [fetchAll EXCEPT !.pc = "exit", !.days = n]
            ELSE [fetchAll EXCEPT !.pc = "loop", !.days = n,
                                  !.end = FetchAllNow,
                                  !.start = AddDays(FetchAllNow, -n),
                                  !.d = AddDays(FetchAllNow, -n)]
    /\ UNCHANGED <<dayVars, client, weekly, auth>>

\* lines 348-378: what one iteration does after GetDayData has returned
AfterFetch(d, result, note) ==
    IF result.err # Nil THEN <<>>
    ELSE IF result.data.Cycle = <<>> THEN <<SleepEvent(d)>>
    ELSE IF note # "written" THEN <<>>
    ELSE <<WriteEvent(d), SleepEvent(d)>>

\* lines 347-379: one iteration of the loop
FetchAllDay ==
    /\ fetchAll.pc = "loop"
    /\ Before(fetchAll.d, fetchAll.end)
    /\ \E result \in DayResults(fetchAll.d), note \in NoteResults :
        fetchAll' = [fetchAll EXCEPT
                        !.events = (@ \o <<FetchEvent(fetchAll.d, result)>>)
                                      \o AfterFetch(fetchAll.d, result, note),
                        !.d = AddDays(fetchAll.d, 1)]
    /\ UNCHANGED <<dayVars, client, weekly, auth>>

\* lines 347, 381: the loop is left
FetchAllDone ==
    /\ fetchAll.pc = "loop"
    /\ ~Before(fetchAll.d, fetchAll.end)
    /\ fetchAll' = [fetchAll EXCEPT !.pc = "done"]
    /\ UNCHANGED <<dayVars, client, weekly, auth>>

FetchAllNext == FetchAllStart \/ FetchAllDay \/ FetchAllDone

FetchAllSpec == FetchAllInit /\ [][FetchAllNext]_vars

-----------------------------------------------------------------------------
(* auth.RefreshIfNeeded, with tokens.json and the token endpoint *)

MinuteMs == 60 * SecondMs

\* time.Now() when RefreshIfNeeded is called: 2026-02-20 20:00 or 20:30 UTC
AuthNows == {At(2, 20, 0, 0, 0), At(2, 20, 30, 0, 0)}

\* tokens.json before the call; expires_at lies around 2026-02-20T20:05:00Z
TokenFiles ==
    {NoFile, Garbage}
    \cup {TokenResponse("stored-access", "stored-refresh", At(2, 20, 5, 0, 0) + delta) :
            delta \in {-HourMs, -1, 0, 1, HourMs}}

\* what http.PostForm(tokenURL, data) and the decoding of its body come to: a
\* token set with or without a new refresh token, or a failure; the delay is the
\* time the request took
TokenAnswers ==
    {[kind |-> "ok", AccessToken |-> "new-access", RefreshToken |-> r,
      ExpiresIn |-> 3600, delay |-> dl] :
        r \in {"new-refresh", ""}, dl \in {0, 2 * SecondMs}}
    \cup {[kind |-> k, AccessToken |-> "", RefreshToken |-> "", ExpiresIn |-> 0, delay |-> 0] :
            k \in {"transport", "status 401", "undecodable"}}

\* what os.WriteFile(tokenFile, data, 0600) comes to: written, not opened (the
\* file is as before), opened and truncated but not written
Writes == {"written", "open error", "write error"}

\* mutant: a token that expires in exactly 5 minutes still counts as valid
FreshInclusive(now, tokens) == now + 5 * MinuteMs <= tokens.ExpiresAt

\* line 207: time.Now().Add(5 * time.Minute).Before(tokens.ExpiresAt)
Fresh(now, tokens) == now + 5 * MinuteMs < tokens.ExpiresAt

\* lines 225-235: the form refreshTokens posts
RefreshGrant(refreshToken) ==
    [grant_type |-> "refresh_token", refresh_token |-> refreshToken]

AuthInit ==
    /\ GetDayDataIdle
    /\ client = ClientIdle
    /\ weekly = WeeklyIdle
    /\ fetchAll = FetchAllIdle
    /\ \E f \in TokenFiles : auth = [AuthIdle EXCEPT !.file = f, !.stored = f]

\* lines 201-209: LoadTokens and the expiry test
AuthLoad ==
    /\ auth.pc = "idle"
    /\ \E now \in AuthNows :
        auth' =
            IF auth.file.kind = "missing"
            THEN [auth EXCEPT !.pc = "returned", !.now = now,
                              !.err = Wrap("tokens not found", "", "read")]
            ELSE IF auth.file.kind = "corrupt"
            THEN [auth EXCEPT !.pc = "returned", !.now = now,
                              !.err = Wrap("failed to parse tokens.json", "", "json")]
            ELSE IF Fresh(now, auth.file)
            THEN [auth EXCEPT !.pc = "returned", !.now = now, !.tokens = auth.file,
                              !.token = auth.file.AccessToken]
            ELSE [auth EXCEPT !.pc = "refresh", !.now = now, !.tokens = auth.file]
    /\ UNCHANGED <<dayVars, client, weekly, fetchAll>>

\* lines 212-215 with refreshTokens and postTokenRequest (156-174)
AuthRefresh ==
    /\ auth.pc = "refresh"
    /\ \E answer \in TokenAnswers :
        LET posted == [auth EXCEPT !.posts = Append(@, RefreshGrant(auth.tokens.RefreshToken)),
                                   !.answer = answer]
        IN  auth' =
                IF answer.kind # "ok"
                THEN [posted EXCEPT !.pc = "returned",
                                    !.err = Wrap("token refresh failed", "", answer.kind)]
                ELSE [posted EXCEPT !.pc = "save",
                                    !.refreshed =
                                        TokenResponse(answer.AccessToken, answer.RefreshToken,
                                               auth.now + answer.delay
                                                   + answer.ExpiresIn * SecondMs)]
    /\ UNCHANGED <<dayVars, client, weekly, fetchAll>>

\* lines 217-221 with SaveTokens (177-183)
AuthSave ==
    /\ auth.pc = "save"
    /\ \E w \in Writes :
        auth' =
            CASE w = "written" ->
                    [auth EXCEPT !.pc = "returned", !.saved = w, !.file = auth.refreshed,
                                 !.token = auth.refreshed.AccessToken]
              [] w = "open error" ->
                    [auth EXCEPT !.pc = "returned", !.saved = w,
                                 !.err = Wrap("failed to save refreshed tokens", "", w)]
              [] w = "write error" ->
                    [auth EXCEPT !.pc = "returned", !.saved = w, !.file = Garbage,
                                 !.err = Wrap("failed to save refreshed tokens", "", w)]
    /\ UNCHANGED <<dayVars, client, weekly, fetchAll>>

AuthNext == AuthLoad \/ AuthRefresh \/ AuthSave

AuthSpec == AuthInit /\ [][AuthNext]_vars

-----------------------------------------------------------------------------
(* Vocabulary of the properties *)

Last(s) == s[Len(s)]

Returned == pc = <<"returned">>

\* 00:00 UTC of the calendar day of the requested date
RequestedDay == ((date.t + date.off) \div DayMs) * DayMs

\* the server's last answer ended the fetch of f with a failure
ServerFailed(f) ==
    served[f] # <<>> /\ Last(served[f]).kind \in {"error", "badbody"}

\* the server's answers to the fetch of f were all pages, the last one final
ServerDone(f) ==
    /\ served[f] # <<>>
    /\ \A i \in 1..Len(served[f]) : served[f][i].kind = "ok"
    /\ Last(served[f]).next = ""

\* the server ended the cycle fetch without ever delivering a cycle
CycleAnswerEmpty ==
    /\ served["cycle"] # <<>>
    /\ \A i \in 1..Len(served["cycle"]) :
         /\ served["cycle"][i].kind \in {"ok", "notfound"}
         /\ served["cycle"][i].records = <<>>
    /\ Last(served["cycle"]).next = ""

Launched == \A w \in Workers : worker[w] # "none"

-----------------------------------------------------------------------------
(* Properties *)

\* C1: when the cycle fetch comes back empty (an empty final page or a
\* not-found answer), GetDayData returns a nil error and a DayData holding only
\* the date, and no recovery, sleep or workout request is ever sent.
C1_NoCycleNoError ==
    CycleAnswerEmpty =>
        /\ \A w \in Workers : requests[w] = <<>> /\ worker[w] = "none"
        /\ fp["cycle"].v = <<>> /\ fp["cycle"].err = Nil
        /\ Returned =>
             /\ err = Nil
             /\ data.Date = <<RequestedDay>>
             /\ data.Cycle = <<>> /\ data.Recovery = <<>>
             /\ data.Sleeps = <<>> /\ data.Workouts = <<>>

C1_Witness ==
    /\ Returned
    /\ Len(served["cycle"]) = 1
    /\ served["cycle"][1].kind = "notfound"
    /\ err = Nil /\ data.Cycle = <<>>

\* C2: when a recovery, sleep or workout fetch fails after the cycle was
\* found, GetDayData returns an error and a DayData with Date and Cycle set and
\* Recovery, Sleeps and Workouts unset, whatever the other fetches delivered.
C2_SubFetchFailure ==
    (Returned /\ \E w \in Workers : ServerFailed(w)) =>
        /\ err # Nil
        /\ data.Date = <<RequestedDay>>
        /\ data.Cycle = <<fp["cycle"].v[1]>>
        /\ data.Recovery = <<>> /\ data.Sleeps = <<>> /\ data.Workouts = <<>>

C2_Witness ==
    /\ Returned
    /\ ServerFailed("workout")
    /\ ServerDone("recovery") /\ got["recovery"].v # <<>>
    /\ ServerDone("sleep") /\ got["sleep"].v # <<>>
    /\ err # Nil /\ data.Cycle # <<>> /\ data.Sleeps = <<>>

\* C3: when several of the three fetches fail, the error returned is that of
\* the first failing one in the order recovery, sleep, workout, in every
\* interleaving of the goroutines.
C3_FirstErrorInOrder ==
    LET failed == {w \in Workers : ServerFailed(w)}
        order == <<"recovery", "sleep", "workout">>
        first == order[CHOOSE i \in 1..3 :
                         order[i] \in failed /\ \A j \in 1..(i - 1) : order[j] \notin failed]
    IN  (Returned /\ Cardinality(failed) >= 2) =>
            /\ err = fp[first].err
            /\ err.path = Path(first)
            /\ err.op \in {"get", "parse"}

C3_Witness ==
    /\ Returned
    /\ \A w \in Workers : ServerFailed(w) /\ worker[w] = "done"
    /\ err.path = "/recovery"
    /\ Len(ch["sleep"]) = 1 /\ Len(ch["workout"]) = 1

\* C4: a worker that has its result can always send it at once, whether or not
\* GetDayData is (still) reading, so every launched worker terminates, also
\* after GetDayData returned early and left channels unread.
C4_NoGoroutineLeak ==
    /\ [](\A w \in Workers :
            (worker[w] = "running" /\ fp[w].state = "returned") => ENABLED WorkerSend(w))
    /\ \A w \in Workers : (worker[w] = "running") ~> (worker[w] = "done")

C4_Witness ==
    /\ Returned
    /\ ServerFailed("recovery") /\ err.path = "/recovery"
    /\ \A w \in {"sleep", "workout"} : worker[w] = "done" /\ Len(ch[w]) = 1

\* C5: once a cycle is found and its start parses, recovery and workout are
\* fetched over [cycle.start, CycleEnd) and sleep over [cycle.start - 24h,
\* CycleEnd), CycleEnd being cycle.end when present and parseable and else
\* 00:00 UTC of the day after the requested date.
C5_Windows ==
    Launched =>
        LET cycle == fp["cycle"].v[1]
            start == ParseWhoopTime(cycle.Start)
            end == ParseWhoopTime(cycle.End)
            cycleEnd == IF cycle.End.form # "empty" /\ end.ok
                        THEN end.t ELSE RequestedDay + 24 * HourMs
        IN  /\ start.ok
            /\ fp["recovery"].start = start.t /\ fp["recovery"].end = cycleEnd
            /\ fp["workout"].start = start.t /\ fp["workout"].end = cycleEnd
            /\ fp["sleep"].start = start.t - 24 * HourMs /\ fp["sleep"].end = cycleEnd
            /\ (RequestedDay = At(2, 0, 0, 0, 0) /\ cycle = c9) =>
                 /\ cycleEnd = At(3, 0, 0, 0, 0)
                 /\ fp["sleep"].start = At(1, 7, 15, 0, 0)
                 /\ fp["sleep"].end = At(3, 0, 0, 0, 0)

C5_Witness ==
    /\ Launched
    /\ RequestedDay = At(2, 0, 0, 0, 0)
    /\ data.Cycle = <<c9>>
    /\ fp["sleep"].start = At(1, 7, 15, 0, 0)
    /\ requests["sleep"] # <<>>

\* C6: on full success Recovery is the first record of the recovery fetch's
\* result whose cycle_id is the cycle's id, absent when none matches (without
\* error); a recovery of another cycle is never attached.
C6_RecoveryByCycleID ==
    LET recs == fp["recovery"].v
    IN  /\ (Returned /\ err = Nil /\ data.Cycle # <<>>) =>
             LET id == data.Cycle[1].ID
             IN  /\ (\A i \in 1..Len(recs) : recs[i].CycleID # id) => data.Recovery = <<>>
                 /\ \A i \in 1..Len(recs) :
                      (recs[i].CycleID = id /\ \A j \in 1..(i - 1) : recs[j].CycleID # id)
                          => data.Recovery = <<recs[i]>>
                 /\ (id = 9 /\ Len(recs) >= 2 /\ recs[1].CycleID = 5 /\ recs[2].CycleID = 9)
                          => data.Recovery = <<recs[2]>>
        /\ data.Recovery # <<>> =>
             data.Cycle # <<>> /\ data.Recovery[1].CycleID = data.Cycle[1].ID

C6_Witness ==
    /\ Returned /\ err = Nil
    /\ data.Cycle # <<>> /\ data.Cycle[1].ID = 9
    /\ Len(fp["recovery"].v) = 4
    /\ fp["recovery"].v[3].CycleID = 9
    /\ data.Recovery = <<fp["recovery"].v[2]>>

RECURSIVE Concat(_)
\* the records of the pages, page after page
Concat(pages) ==
    IF pages = <<>> THEN <<>> ELSE Head(pages).records \o Concat(Tail(pages))

\* C7: a fetch answered with k pages, only the last without next_token, sends
\* exactly k requests and returns the pages' records concatenated in order.
C7_Pagination ==
    \A f \in Resources :
        (served[f] # <<>> /\ \A i \in 1..Len(served[f]) : served[f][i].kind = "ok") =>
            LET k == Len(served[f])
            IN  /\ Len(requests[f]) = k
                /\ \A i \in 1..(k - 1) : served[f][i].next # ""
                /\ IF served[f][k].next = ""
                   THEN /\ fp[f].state = "returned"
                        /\ fp[f].err = Nil
                        /\ fp[f].v = Concat(served[f])
                   ELSE fp[f].state = "running"

C7_Witness ==
    /\ Len(served["sleep"]) = 2
    /\ served["sleep"][1].kind = "ok" /\ served["sleep"][1].next # ""
    /\ served["sleep"][2].kind = "ok" /\ served["sleep"][2].next = ""
    /\ Len(requests["sleep"]) = 2
    /\ fp["sleep"].state = "returned"
    /\ fp["sleep"].v = <<Activity("s1"), Activity("s2"), Activity("s3"), Activity("s1")>>

\* C8: for each of the four resources a not-found answer to the first request
\* ends the fetch after that one request with an empty list and a nil error,
\* and no error reaches the caller.
C8_NotFoundIsEmpty ==
    \A f \in Resources :
        (served[f] # <<>> /\ served[f][1].kind = "notfound") =>
            /\ Len(requests[f]) = 1 /\ Len(served[f]) = 1
            /\ fp[f].state = "returned"
            /\ fp[f].v = <<>>
            /\ fp[f].err = Nil
            /\ IF f = "cycle"
               THEN Returned => err = Nil
               ELSE /\ \A i \in 1..Len(ch[f]) : ch[f][i] = [v |-> <<>>, err |-> Nil]
                    /\ got[f] = [v |-> <<>>, err |-> Nil]

C8_Witness ==
    /\ \A w \in Workers : served[w] = <<Response("notfound", <<>>, "", "not found")>>
    /\ Returned /\ err = Nil
    /\ data.Cycle # <<>> /\ data.Sleeps = <<>> /\ data.Workouts = <<>>

\* C9: every DayData GetDayData returns, with or without an error, has Date
\* set, and with Cycle absent has Recovery absent and Sleeps and Workouts empty.
C9_DayDataInvariant ==
    Returned =>
        /\ data.Date = <<RequestedDay>>
        /\ data.Cycle = <<>> =>
             data.Recovery = <<>> /\ data.Sleeps = <<>> /\ data.Workouts = <<>>

C9_Witness ==
    /\ Returned /\ err # Nil /\ err.path = "/cycle"
    /\ data.Date # <<>> /\ data.Cycle = <<>>

\* the server returned only cycles whose start lies in the window it was asked for
ServerHonoursWindow ==
    \A i \in 1..Len(served["cycle"]) :
        \A k \in 1..Len(served["cycle"][i].records) :
            LET t == ParseWhoopTime(served["cycle"][i].records[k].Start)
                from == ParseWhoopTime(requests["cycle"][i].start)
                to == ParseWhoopTime(requests["cycle"][i].end)
            IN  t.ok /\ from.ok /\ to.ok /\ from.t <= t.t /\ t.t < to.t

\* C10 as stated: whatever the cycle fetch returns, the selected cycle starts
\* in [D 00:00 UTC, D+1 00:00 UTC).
C10_AsStated ==
    data.Cycle # <<>> =>
        LET t == ParseWhoopTime(data.Cycle[1].Start)
        IN  t.ok => (RequestedDay <= t.t /\ t.t < RequestedDay + 24 * HourMs)

\* C10 (amended): the cycle request asks for start = D 00:00 UTC and end = D+1
\* 00:00 UTC, and the first cycle returned is selected unchecked; its start
\* lies in [D 00:00, D+1 00:00) whenever the server returned only cycles that
\* start inside the half-open window it was asked for.
C10_WindowRequested ==
    /\ \A i \in 1..Len(requests["cycle"]) :
         /\ requests["cycle"][i].start = ZStr(RequestedDay)
         /\ requests["cycle"][i].end = ZStr(RequestedDay + 24 * HourMs)
    /\ (data.Cycle # <<>> /\ ServerHonoursWindow) =>
         LET t == ParseWhoopTime(data.Cycle[1].Start)
         IN  /\ data.Cycle[1] = Concat(served["cycle"])[1]
             /\ t.ok /\ RequestedDay <= t.t /\ t.t < RequestedDay + 24 * HourMs

C10_Witness ==
    /\ Returned /\ ServerHonoursWindow
    /\ RequestedDay = At(3, 0, 0, 0, 0)
    /\ data.Cycle = <<cMidnight>>

\* C11: GetDayData returns a nil error only when every answer to its requests
\* was a page or a not-found and the selected cycle's start parsed; after a
\* transport or server error of the cycle fetch or of a sub-fetch the error it
\* returns is not nil, and a day returned as empty without error is one for
\* which the server delivered no cycle.
C11_ErrorsAreReported ==
    /\ (Returned /\ err = Nil) =>
         /\ \A f \in Resources : \A i \in 1..Len(served[f]) :
              served[f][i].kind \in {"ok", "notfound"}
         /\ data.Cycle # <<>> => ParseWhoopTime(data.Cycle[1].Start).ok
         /\ data.Cycle = <<>> => Concat(served["cycle"]) = <<>>
    /\ (Returned /\ \E f \in Resources :
                        served[f] # <<>> /\ Last(served[f]).kind = "error") => err # Nil

C11_Witness ==
    /\ Returned
    /\ ServerDone("recovery") /\ ServerDone("sleep")
    /\ Len(served["workout"]) = 2 /\ Last(served["workout"]).kind = "error"
    /\ err = Wrap("get", "/activity/workout", "status 500")

\* C12 as stated: with the selected cycle's end present and unparsable,
\* GetDayData returns a timestamp-parse error.
C12_AsStated ==
    (Returned /\ data.Cycle # <<>>
        /\ data.Cycle[1].End # EmptyStr /\ ~ParseWhoopTime(data.Cycle[1].End).ok) =>
            err # Nil /\ err.op \in {"parse cycle start", "parse cycle end"}

\* C12 (amended): an end that is present and unparsable does not fail the
\* aggregation: the three fetches are launched with 00:00 UTC of the next day as
\* their end and no timestamp-parse error is returned; the only timestamp-parse
\* error GetDayData returns is that of an unparsable cycle start.
C12_BadEndFallsBack ==
    /\ (data.Cycle # <<>>
          /\ ParseWhoopTime(data.Cycle[1].Start).ok
          /\ data.Cycle[1].End # EmptyStr /\ ~ParseWhoopTime(data.Cycle[1].End).ok) =>
            /\ Launched
            /\ \A w \in Workers : fp[w].end = RequestedDay + 24 * HourMs
            /\ err = Nil \/ err.op \in {"get", "parse"}
            /\ (Returned /\ \A w \in Workers : ~ServerFailed(w)) => err = Nil
    /\ (err # Nil /\ err.op \notin {"get", "parse"}) =>
            /\ err.op = "parse cycle start"
            /\ data.Cycle # <<>> /\ ~ParseWhoopTime(data.Cycle[1].Start).ok

C12_Witness ==
    /\ Returned /\ err = Nil
    /\ data.Cycle = <<cBadEnd>>
    /\ fp["sleep"].end = RequestedDay + 24 * HourMs
    /\ data.Sleeps # <<>>

\* C13: when the cycle fetch returns several cycles, Cycle is the first record
\* of the pages in server order, the three windows are those of that cycle and
\* the recovery is matched against its id; the cycles after it play no part.
C13_FirstCycleOnly ==
    data.Cycle # <<>> =>
        LET first == Concat(served["cycle"])[1]
            start == ParseWhoopTime(first.Start)
            end == ParseWhoopTime(first.End)
            cycleEnd == IF first.End.form # "empty" /\ end.ok
                        THEN end.t ELSE RequestedDay + 24 * HourMs
            recs == fp["recovery"].v
        IN  /\ data.Cycle = <<first>>
            /\ Launched =>
                 /\ fp["recovery"].start = start.t /\ fp["recovery"].end = cycleEnd
                 /\ fp["sleep"].start = start.t - 24 * HourMs /\ fp["sleep"].end = cycleEnd
                 /\ fp["workout"].start = start.t /\ fp["workout"].end = cycleEnd
            /\ data.Recovery # <<>> => data.Recovery[1].CycleID = first.ID
            /\ (Returned /\ err = Nil) =>
                 (data.Recovery = <<>> <=> \A i \in 1..Len(recs) : recs[i].CycleID # first.ID)

C13_Witness ==
    /\ Returned /\ err = Nil
    /\ fp["cycle"].v = <<c9, c5>>
    /\ data.Cycle = <<c9>>
    /\ fp["workout"].start = At(2, 7, 15, 0, 0)
    /\ data.Recovery # <<>> /\ data.Recovery[1].CycleID = 9

\* C14: the status of the answer that ends Get decides its result, also after
\* 429 answers: 2xx gives the body and a nil error, 404 gives ErrNotFound itself,
\* every other status an error that is not ErrNotFound.
C14_StatusMapping ==
    (client.pc = "returned" /\ Last(client.answers).err = Nil
        /\ Last(client.answers).status # 429) =>
        LET last == Last(client.answers)
        IN  /\ (last.status >= 200 /\ last.status <= 299) =>
                 client.err = Nil /\ client.body = last.body
            /\ last.status = 404 => client.err = ErrNotFound
            /\ (last.status # 404 /\ (last.status < 200 \/ last.status > 299)) =>
                 client.err # Nil /\ client.err # ErrNotFound /\ client.body = <<>>

C14_Witness ==
    /\ client.pc = "returned"
    /\ Len(client.answers) = 3
    /\ client.answers[1].status = 429 /\ client.answers[2].status = 429
    /\ client.answers[3].status = 404
    /\ client.err = ErrNotFound

\* C15: Get sends at most 4 requests and every one before the last was answered
\* 429; it returns on the first answer that is not a 429, with that answer's
\* outcome, and with the rate-limit error when all 4 answers were 429.
C15_RetryOnly429 ==
    LET k == Len(client.answers)
    IN  /\ k <= 4
        /\ \A i \in 1..(k - 1) :
             client.answers[i].err = Nil /\ client.answers[i].status = 429
        /\ client.pc = "request" => \A i \in 1..k : client.answers[i].status = 429
        /\ client.pc = "returned" =>
             /\ k >= 1
             /\ IF Last(client.answers).err # Nil
                THEN client.err = Last(client.answers).err
                ELSE IF Last(client.answers).status # 429
                THEN /\ client.err.op # "WHOOP API rate limit exceeded"
                     /\ client.err = Nil <=>
                          (Last(client.answers).status >= 200 /\ Last(client.answers).status <= 299)
                     /\ client.err = Nil => client.body = Last(client.answers).body
                ELSE /\ k = 4
                     /\ client.err = Wrap("WHOOP API rate limit exceeded", client.path, "after retries")

C15_Witness ==
    /\ client.pc = "returned"
    /\ Len(client.answers) = 3
    /\ client.answers[1].status = 429 /\ client.answers[2].status = 429
    /\ client.answers[3].status = 200
    /\ client.err = Nil /\ client.body = Body(200)

\* C16 as stated: when every attempt is answered 429, Get has slept 1 s, 2 s
\* and 4 s, 7 s in all, when it returns the rate-limit error.
C16_AsStated ==
    (client.pc = "returned" /\ Len(client.answers) = 4
        /\ \A i \in 1..4 : client.answers[i].status = 429) =>
            client.slept = <<1000, 2000, 4000>>

\* place of a sub-fetch in the order recovery, sleep, workout
Rank(w) == CASE w = "recovery" -> 1 [] w = "sleep" -> 2 [] w = "workout" -> 3

\* the goroutine of w has delivered an error that GetDayData has not read
ErrorDelivered(w) == Len(ch[w]) > 0 /\ ch[w][1].err # Nil

CalDay(x) == (x.t + x.off) \div DayMs

\* a DayData with nothing but its Date
DateOnly(e) ==
    e.Date # <<>> /\ e.Cycle = <<>> /\ e.Recovery = <<>> /\ e.Sleeps = <<>> /\ e.Workouts = <<>>

\* C18: the week runWeekly hands on has 7 entries, Monday to Sunday of the week
\* of the given date; a day that begins after the current time is a Date-only
\* entry for which GetDayData was not called; every other day was fetched, in
\* order, and a failed one is a Date-only entry while the days after it were
\* still fetched.
C18_SevenDays ==
    /\ Len(weekly.days) <= 7
    /\ (\E k \in 1..Len(weekly.calls) : weekly.calls[k].result.err # Nil) =>
            weekly.pc \in {"loop", "built"}
    /\ weekly.pc = "built" =>
         /\ Len(weekly.days) = 7
         /\ \E i \in 1..7 : CalDay(weekly.days[i].Date[1]) = CalDay(weekly.date)
         /\ \A i \in 1..7 :
              LET e == weekly.days[i]
                  midnight == [t |-> CalDay(e.Date[1]) * DayMs - weekly.date.off,
                               off |-> weekly.date.off]
                  made == {k \in 1..Len(weekly.calls) : weekly.calls[k].d = midnight}
              IN  /\ (CalDay(e.Date[1]) + 3) % 7 = i % 7
                  /\ CalDay(e.Date[1]) = CalDay(weekly.days[1].Date[1]) + (i - 1)
                  /\ IF midnight.t > weekly.today.t
                     THEN made = {} /\ DateOnly(e) /\ e.Date = <<midnight>>
                     ELSE /\ Cardinality(made) = 1
                          /\ \A k \in made :
                               /\ \A j \in 1..(k - 1) : weekly.calls[j].d.t < midnight.t
                               /\ IF weekly.calls[k].result.err # Nil
                                  THEN DateOnly(e) /\ e.Date = <<midnight>>
                                  ELSE e = weekly.calls[k].result.data

C18_Witness ==
    /\ weekly.pc = "built"
    /\ Len(weekly.calls) = 5
    /\ weekly.calls[2].result.err # Nil /\ DateOnly(weekly.days[2])
    /\ weekly.calls[3].result.err = Nil /\ weekly.days[3].Cycle # <<>>
    /\ DateOnly(weekly.days[6]) /\ DateOnly(weekly.days[7])
    /\ CalDay(weekly.days[7].Date[1]) = 4

\* C19 as stated: in fetch-all, between the GetDayData call of one day and that
\* of the next a 500 ms sleep takes place, and a note is written for a day only
\* after its fetch succeeded and returned a cycle.
C19_AsStated ==
    LET ev == fetchAll.events
    IN  /\ \A i \in 1..Len(ev) : \A j \in (i + 1)..Len(ev) :
             (ev[i].kind = "fetch" /\ ev[j].kind = "fetch") =>
                 \E k \in (i + 1)..(j - 1) : ev[k].kind = "sleep" /\ ev[k].ms = 500
        /\ \A j \in 1..Len(ev) :
             ev[j].kind = "write" =>
                 /\ j > 1 /\ ev[j - 1].kind = "fetch" /\ ev[j - 1].d = ev[j].d
                 /\ ev[j - 1].result.err = Nil
                 /\ ev[j - 1].result.data.Cycle # <<>>

\* C20 as stated: the stored access token is returned, with no request to the
\* token endpoint, exactly when expires_at is more than 5 minutes after now;
\* otherwise a refresh_token grant is posted, the new tokens are saved and the
\* new access token is returned; when loading or the refresh request fails an
\* error is returned and tokens.json is as before.
C20_AsStated ==
    auth.pc = "returned" =>
        IF auth.stored.kind # "tokens"
        THEN auth.err # Nil /\ auth.token = "" /\ auth.posts = <<>> /\ auth.file = auth.stored
        ELSE IF auth.stored.ExpiresAt - auth.now > 5 * 60 * 1000
        THEN /\ auth.err = Nil /\ auth.token = auth.stored.AccessToken
             /\ auth.posts = <<>> /\ auth.file = auth.stored
        ELSE /\ auth.posts = <<[grant_type |-> "refresh_token",
                                refresh_token |-> auth.stored.RefreshToken]>>
             /\ IF auth.answer.kind # "ok"
                THEN auth.err # Nil /\ auth.token = "" /\ auth.file = auth.stored
                ELSE /\ auth.err = Nil /\ auth.token = auth.answer.AccessToken
                     /\ auth.file.kind = "tokens"
                     /\ auth.file.AccessToken = auth.answer.AccessToken

\* C20 (amended): as stated, except that after a successful refresh request the
\* new access token is returned only when tokens.json could be written; when
\* the write fails an error is returned, with tokens.json as before or damaged.
C20_RefreshIfNeeded ==
    auth.pc = "returned" =>
        IF auth.stored.kind # "tokens"
        THEN auth.err # Nil /\ auth.token = "" /\ auth.posts = <<>> /\ auth.file = auth.stored
        ELSE IF auth.stored.ExpiresAt - auth.now > 5 * 60 * 1000
        THEN /\ auth.err = Nil /\ auth.token = auth.stored.AccessToken
             /\ auth.posts = <<>> /\ auth.file = auth.stored
        ELSE /\ auth.posts = <<[grant_type |-> "refresh_token",
                                refresh_token |-> auth.stored.RefreshToken]>>
             /\ IF auth.answer.kind # "ok"
                THEN auth.err # Nil /\ auth.token = "" /\ auth.file = auth.stored
                ELSE IF auth.saved = "written"
                THEN /\ auth.err = Nil /\ auth.token = auth.answer.AccessToken
                     /\ auth.file.kind = "tokens"
                     /\ auth.file.AccessToken = auth.answer.AccessToken
                     /\ auth.file.ExpiresAt >= auth.now + auth.answer.ExpiresIn * 1000
                ELSE /\ auth.err # Nil /\ auth.token = ""
                     /\ auth.file \in {auth.stored, Garbage}

C20_Witness ==
    /\ auth.pc = "returned"
    /\ auth.stored.kind = "tokens"
    /\ auth.stored.ExpiresAt - auth.now = 5 * 60 * 1000
    /\ Len(auth.posts) = 1
    /\ auth.token = "new-access" /\ auth.file.AccessToken = "new-access"

\* the fetches that were called
Called == {f \in Resources : fp[f].state # "idle"}

\* an answer after which fetchPaginated makes no further request
Final(resp) == resp.kind # "ok" \/ resp.next = ""

\* C23: an answer that is a transport failure, a non-success status other than
\* not-found, or a body that does not decode, on whatever page, is the last
\* request of the fetch, which returns an error and none of the records of
\* the pages before.
C23_FailureAborts ==
    \A f \in Called : \A i \in 1..Len(served[f]) :
        served[f][i].kind \in {"error", "badbody"} =>
            /\ i = Len(served[f])
            /\ Len(requests[f]) = i
            /\ fp[f].state = "returned"
            /\ fp[f].err # Nil
            /\ fp[f].v = <<>>

C23_Witness ==
    \E f \in Called :
        /\ Len(served[f]) = 3
        /\ Last(served[f]).kind = "badbody"
        /\ fp[f].all # <<>>
        /\ fp[f].state = "returned"
        /\ fp[f].err.op = "parse"

\* C24 as stated: a not-found answer to any request, a continuation request
\* included, ends the fetch with an empty record list and a nil error.
C24_AsStated ==
    \A f \in Called :
        (served[f] # <<>> /\ Last(served[f]).kind = "notfound") =>
            fp[f].state = "returned" /\ fp[f].v = <<>> /\ fp[f].err = Nil

\* C24 (amended): a not-found answer to any request ends the fetch with a nil
\* error and the records of the pages read before it, which is the empty
\* list only when no page before it held a record.
C24_NotFoundKeepsPages ==
    \A f \in Called : \A i \in 1..Len(served[f]) :
        served[f][i].kind = "notfound" =>
            /\ i = Len(served[f])
            /\ Len(requests[f]) = i
            /\ fp[f].state = "returned"
            /\ fp[f].err = Nil
            /\ fp[f].v = Concat(SubSeq(served[f], 1, i - 1))

C24_Witness ==
    \E f \in Called :
        /\ Len(served[f]) = 3
        /\ Last(served[f]).kind = "notfound"
        /\ fp[f].state = "returned"
        /\ fp[f].err = Nil
        /\ Len(fp[f].v) = 4

\* C25: the first request of a fetch carries no nextToken, every later one
\* the next_token of the page before it; all requests carry the start and end
\* of the call, formatted; the fetch stops after the first page whose
\* next_token is empty.
C25_Requests ==
    \A f \in Called :
        /\ \A i \in 1..Len(requests[f]) :
             /\ requests[f][i].nextToken = IF i = 1 THEN "" ELSE served[f][i - 1].next
             /\ requests[f][i].start = FormatRFC3339(fp[f].start)
             /\ requests[f][i].end = FormatRFC3339(fp[f].end)
             /\ requests[f][i].path = Path(f)
        /\ \A i \in 1..Len(served[f]) :
             (served[f][i].kind = "ok" /\ served[f][i].next = "") =>
                 /\ i = Len(served[f])
                 /\ Len(requests[f]) = i
                 /\ fp[f].state = "returned"

C25_Witness ==
    \E f \in Called :
        /\ Len(requests[f]) = 3
        /\ requests[f][2].nextToken = Tokens[1]
        /\ requests[f][3].nextToken = Tokens[2]
        /\ requests[f][1].start = ZStr(At(2, 7, 15, 0, 0))
        /\ fp[f].start = At(2, 7, 15, 0, 500)
        /\ fp[f].state = "returned"
        /\ Last(served[f]).kind = "ok"

\* C30: a fetch has returned exactly when the last answer it got was a page
\* with an empty next_token, a not-found or a failure, no answer before it was
\* one of these, and it got an answer to every request; a fetch that is
\* running eventually returns once the server gives such an answer. Neither
\* the number of pages read nor a token seen before makes it return.
C30_ReturnsOnFinalAnswer ==
    /\ [](\A f \in Called :
            /\ Len(requests[f]) = Len(served[f])
            /\ \A i \in 1..(Len(served[f]) - 1) : ~Final(served[f][i])
            /\ fp[f].state = "returned" <=>
                    (served[f] # <<>> /\ Final(Last(served[f]))))
    /\ \A f \in Resources : (fp[f].state = "running" ~> fp[f].state = "returned")

C30_Witness ==
    \E f \in Called :
        /\ Len(served[f]) = MaxRequests
        /\ served[f][1].next # ""
        /\ served[f][2].next = served[f][1].next
        /\ fp[f].state = "returned"
        /\ fp[f].err = Nil

\* a failure GetDayData has met: the cycle fetch failed, the cycle's start
\* did not parse, or a result read from a channel carried an error
FailureMet ==
    \/ pc # <<"start">> /\ fp["cycle"].state = "returned" /\ fp["cycle"].err # Nil
    \/ data.Cycle # <<>> /\ ~ParseWhoopTime(data.Cycle[1].Start).ok
    \/ \E w \in Workers : got[w].err # Nil

\* the state of the aggregation; CycleFound is passed through within the step
\* that takes the cycle, parses its start and starts the goroutines
Phase ==
    CASE pc \in {<<"start">>, <<"getCycles">>} -> "ResolvingCycle"
      [] pc \in {RecvPc(w) : w \in Workers} -> "FetchingDetails"
      [] Returned /\ FailureMet -> "Failed"
      [] Returned /\ ~FailureMet /\ data.Cycle = <<>> -> "NoCycleFound"
      [] Returned /\ ~FailureMet /\ data.Cycle # <<>> -> "Reconciled"

Transitions ==
    { <<"ResolvingCycle", "NoCycleFound">>,
      <<"ResolvingCycle", "FetchingDetails">>,
      <<"FetchingDetails", "Reconciled">>,
      <<"ResolvingCycle", "Failed">>,
      <<"FetchingDetails", "Failed">> }

\* C21: GetDayData changes state only along ResolvingCycle -> NoCycleFound,
\* ResolvingCycle -> (CycleFound) -> FetchingDetails -> Reconciled, or from a
\* state that is not terminal to Failed; FetchingDetails is entered with the
\* cycle found; once returned, its state, DayData and error no longer change;
\* it returns an error exactly when it ends in Failed; and, every fetch
\* returning, it eventually returns.
C21_StateMachine ==
    /\ [][/\ Phase' # Phase => <<Phase, Phase'>> \in Transitions
          /\ Phase' = "FetchingDetails" => data'.Cycle # <<>>
          /\ Returned => (pc' = pc /\ data' = data /\ err' = err)]_vars
    /\ [](Returned => (err # Nil <=> Phase = "Failed"))
    /\ <>Returned

C21_Witness ==
    /\ Phase = "Failed"
    /\ pc = <<"returned">>
    /\ got["recovery"].err = Nil /\ got["sleep"].err # Nil
    /\ err = got["sleep"].err
    /\ data.Cycle # <<>>

\* the cycle fetch has returned a non-empty list whose first cycle has a start that parses
CycleResolved ==
    /\ fp["cycle"].state = "returned"
    /\ fp["cycle"].err = Nil
    /\ fp["cycle"].v # <<>>
    /\ ParseWhoopTime(fp["cycle"].v[1].Start).ok

\* C22: no recovery, sleep or workout request is sent, and no goroutine
\* exists, before the cycle fetch has returned a non-empty list and the
\* cycle's start has parsed; from then on there are exactly three goroutines,
\* one per resource, each with its own fetch on its own path, running side by
\* side; the cycle fetch is over before they start.
C22_LaunchAfterCycle ==
    /\ \A w \in Workers :
         (requests[w] # <<>> \/ fp[w].state # "idle" \/ worker[w] # "none") =>
             /\ CycleResolved
             /\ pc \notin {<<"start">>, <<"getCycles">>}
    /\ (CycleResolved /\ pc # <<"getCycles">>) =>
         \A w \in Workers :
             /\ worker[w] # "none"
             /\ fp[w].state # "idle"
             /\ \A i \in 1..Len(requests[w]) : requests[w][i].path = Path(w)
    /\ fp["cycle"].state = "running" => \A w \in Workers : worker[w] = "none"

C22_Witness ==
    /\ pc = RecvPc("recovery")
    /\ \A w \in Workers :
         /\ worker[w] = "running"
         /\ fp[w].state = "running"
         /\ Len(requests[w]) = 1

\* C26: when the cycle fetch delivers a first cycle whose start does not
\* parse, no goroutine is started and no recovery, sleep or workout request is
\* sent, and GetDayData returns an error and a DayData with Date and that
\* cycle, Recovery, Sleeps and Workouts unset.
C26_BadCycleStart ==
    (/\ fp["cycle"].state = "returned" /\ fp["cycle"].err = Nil
     /\ fp["cycle"].v # <<>>
     /\ fp["cycle"].v[1].Start \in {BadStr, EmptyStr}) =>
        /\ \A w \in Workers :
             worker[w] = "none" /\ fp[w].state = "idle" /\ requests[w] = <<>>
        /\ pc \in {<<"getCycles">>, <<"returned">>}
        /\ Returned =>
             /\ err = Wrap("parse cycle start", "", "parse")
             /\ data.Date = <<RequestedDay>>
             /\ data.Cycle = <<fp["cycle"].v[1]>>
             /\ data.Recovery = <<>> /\ data.Sleeps = <<>> /\ data.Workouts = <<>>

C26_Witness ==
    /\ Returned
    /\ fp["cycle"].v = <<cBadStart>>
    /\ data.Cycle = <<cBadStart>>
    /\ err.op = "parse cycle start"
    /\ \A w \in Workers : worker[w] = "none"

\* GetDayData has returned a DayData with a cycle and no error
FullSuccess == Returned /\ err = Nil /\ data.Cycle # <<>>

\* the DayData that the server's answers determine, when all four fetches succeed
Determined ==
    LET cycles == Concat(served["cycle"])
        recs == Concat(served["recovery"])
        hits == {i \in 1..Len(recs) : recs[i].CycleID = cycles[1].ID}
    IN  [Date |-> <<RequestedDay>>,
         Cycle |-> <<cycles[1]>>,
         Recovery |-> IF hits = {} THEN <<>>
                      ELSE <<recs[CHOOSE i \in hits : \A j \in hits : i <= j]>>,
         Sleeps |-> Concat(served["sleep"]),
         Workouts |-> Concat(served["workout"])]

\* C27: when all four fetches succeed, the DayData returned is the one the
\* requested date and the server's answers determine, in every order in
\* which the three fetches proceed, finish and hand over their results.
C27_OrderIndependent ==
    FullSuccess => data = Determined

C27_Witness ==
    /\ FullSuccess
    /\ \A f \in Resources : Len(served[f]) = MaxPages
    /\ data.Recovery # <<>>
    /\ data = Determined

\* the position of GetDayData among its steps
PcRank ==
    CASE pc = <<"start">> -> 0
      [] pc = <<"getCycles">> -> 1
      [] pc \in {RecvPc(w) : w \in Workers} -> 1 + Rank(pc[2])
      [] pc = <<"returned">> -> 5

\* C28: a channel never holds more than one message; a message enters the
\* channel of w only by the goroutine of w sending its fetch's result and
\* ending with that, so each goroutine sends once and on its own channel
\* only; a message leaves the channel of w only by GetDayData's receive from
\* it, a position GetDayData leaves with the receive and never comes back
\* to; and when GetDayData has read all three, each goroutine has sent.
C28_Channels ==
    /\ [](\A w \in Workers :
            /\ Len(ch[w]) <= 1
            /\ Len(ch[w]) = 1 => worker[w] = "done"
            /\ worker[w] = "none" => ch[w] = <<>>)
    /\ [](FullSuccess => \A w \in Workers : worker[w] = "done" /\ ch[w] = <<>>)
    /\ [][\A w \in Workers :
            /\ Len(ch'[w]) > Len(ch[w]) =>
                 /\ worker[w] = "running" /\ worker'[w] = "done"
                 /\ ch'[w] = Append(ch[w], [v |-> fp[w].v, err |-> fp[w].err])
                 /\ \A u \in Workers \ {w} : ch'[u] = ch[u]
            /\ worker[w] = "done" => (worker'[w] = "done" /\ Len(ch'[w]) <= Len(ch[w]))
            /\ Len(ch'[w]) < Len(ch[w]) =>
                 /\ pc = RecvPc(w) /\ pc' # pc
                 /\ got'[w] = Head(ch[w])
            /\ PcRank' >= PcRank]_vars

C28_Witness ==
    /\ pc = RecvPc("sleep")
    /\ got["recovery"].v # <<>>
    /\ ch["recovery"] = <<>> /\ worker["recovery"] = "done"
    /\ Len(ch["workout"]) = 1 /\ worker["workout"] = "done"
    /\ worker["sleep"] = "running"

\* C29: when all four fetches succeed, Sleeps and Workouts of the DayData are
\* the lists the sleep fetch and the workout fetch returned, element by
\* element in the same order, duplicates included.
C29_ListsVerbatim ==
    FullSuccess =>
        /\ data.Sleeps = fp["sleep"].v
        /\ data.Workouts = fp["workout"].v
        /\ data.Sleeps = got["sleep"].v
        /\ data.Workouts = got["workout"].v

C29_Witness ==
    /\ FullSuccess
    /\ Len(data.Sleeps) = 4
    /\ data.Sleeps[1] = data.Sleeps[4]
    /\ data.Sleeps[1] # data.Sleeps[2]
    /\ data.Workouts = <<Activity("w2"), Activity("w1")>>

====
